---- MODULE Spec2Model ----
(***************************************************************************)
(* The stock ledger and the inventory-submission workflow of the chemical   *)
(* inventory application: the data-access functions of                      *)
(* services/dataService.ts and the UI handlers that drive them.             *)
(*                                                                          *)
(* The persistent store (products, inventory_submissions, stock_movements)  *)
(* is the shared state.  Every awaited store call is one step: the store    *)
(* applies the request (or fails it) and the continuation of the handler    *)
(* runs up to its next awaited call.  Calls in flight interleave freely at  *)
(* these steps, as the completions of network requests do.                  *)
(***************************************************************************)
EXTENDS Integers, Sequences, FiniteSets, TLC

\* ------------------------------------------------------------- bounds
\* Largest quantity a user types (stock values of forms, counted
\* quantities, consumed or entered quantities).
MaxQty == 2
\* Number of times Date.now() is seen to have advanced.
MaxClock == 1

ProductIds == {"p1", "p2", "p3"}
Codes == {"c1", "c2"}
Depots == {"A", "B"}
SubIds == {"s1", "s2"}
\* The handler invocations a behaviour follows; they may overlap.
Invocations == {1, 2}
\* The depot of the depot user (currentUser.service).
UserDepot == "A"
\* The location handleProductImport gives the rows it inserts.
ImportLocation == "NS"

VARIABLES
    products,          \* table products: id -> row
    submissions,       \* table inventory_submissions: id -> row
    movements,         \* table stock_movements, in insertion order
    now,               \* the last value Date.now() returned
    calls,             \* the handler invocations
    localProducts,     \* App state `products` (the cached table)
    localSubmissions,  \* App state `submissions` (the cached statuses)
    chatMessages,      \* table chat_messages: the notifications stored
    csvExports,        \* the CSV files downloaded
    stagedItems,       \* DepotInventory state `stagedItems`: the lines staged
    localMovements,    \* App state `stockMovements` (the cached ledger)
    seen,              \* per table, its content at the last change notification
    refetches,         \* the re-fetches the notifications have started
    users,             \* table users: email -> profile row
    depots,            \* table depots: id -> row
    session,           \* the Supabase Auth session: the email signed in
    auth,              \* the authService call under way, or the last one
    schedule           \* how the users' actions follow each other

vars == <<products, submissions, movements, now, calls,
          localProducts, localSubmissions, chatMessages, csvExports,
          stagedItems, localMovements, seen, refetches, users, depots,
          session, auth, schedule>>

\* The accounts and the session, which the inventory handlers leave alone.
accounts == <<users, depots, session, auth>>

\* What the handlers of the depot's submission leave alone.
backdrop == <<schedule, localMovements, seen, refetches, accounts>>

\* What the stock and review handlers leave alone.
aside == <<backdrop, chatMessages, csvExports, stagedItems>>

\* ------------------------------------------------------------- rows
NoProduct == [st |-> "none", code |-> "c1", location |-> "A", stock |-> 0]
GoneProduct == [NoProduct EXCEPT !.st = "gone"]
NoItems == [p \in ProductIds |-> 0]
NoSubmission == [status |-> "none", depotName |-> "A", items |-> NoItems]
NoRef == <<"", 0>>

Live(tbl, p) == tbl[p].st = "live"

\* The id the store gives the next inserted row (a fresh UUID in the
\* source): the first id never used.
ProductOrder == <<"p1", "p2", "p3">>
SubOrder == <<"s1", "s2">>
CodeOrder == <<"c1", "c2">>
Unused == {i \in DOMAIN ProductOrder : products[ProductOrder[i]].st = "none"}
FreshId == ProductOrder[CHOOSE i \in Unused : \A j \in Unused : i <= j]

UnusedSubs == {i \in DOMAIN SubOrder : submissions[SubOrder[i]].status = "none"}
FreshSub == SubOrder[CHOOSE i \in UnusedSubs : \A j \in UnusedSubs : i <= j]

ItemsOf(s) == {p \in ProductIds : submissions[s].items[p] > 0}

\* ------------------------------------------------------------- calls
\* op: the handler; pc: the awaited call it is at; p, q, sub, depot, type:
\* its arguments; old: the stock it read; ref: the reference it generated;
\* it: the promise chains of its batch; idx: the place of its loop;
\* snap: the `submissions` its closure captured; res: what it returned
\* ("ok", or the error: "refused" by a check made before any store call,
\* "error" of the store, and for an approval "statusError", the error of its
\* status update, or "stockError", the one its catch block builds).
Idle == [op |-> "idle", pc |-> "done", p |-> "p1", q |-> 0, old |-> 0,
         sub |-> "s1", depot |-> "A", type |-> "", ref |-> NoRef,
         it |-> <<>>, idx |-> 0, snap |-> <<>>, res |-> "none"]

\* An item of a batch is settled when its promise chain has ended.
Settled(st) == st \in {"none", "todo", "skip", "ok", "failed"}

\* What is left of an invocation once it has returned and all its promises
\* have settled: which handler it was, on what, and what it returned.
Finish(c) ==
    IF c.pc = "done" /\ \A i \in DOMAIN c.it : Settled(c.it[i].st)
    THEN [Idle EXCEPT !.op = c.op, !.res = c.res, !.sub = c.sub]
    ELSE c

Return(c, res) == Finish([c EXCEPT !.pc = "done", !.res = res])

\* Item i of the batch of invocation k is at step st.
ItemAt(k, i, st) == i \in DOMAIN calls[k].it /\ calls[k].it[i].st = st

At(k, op, pc) == calls[k].op = op /\ calls[k].pc = pc

\* An invocation not started yet, the first of them.
NotStarted == {k \in Invocations : calls[k].op = "idle"}
NextCall == CHOOSE k \in NotStarted : \A j \in NotStarted : k <= j

\* No invocation is in flight.
Quiet ==
    \A k \in Invocations :
        calls[k].pc = "done" /\ \A i \in DOMAIN calls[k].it : Settled(calls[k].it[i].st)

\* Whether the user can act now: at any time when actions overlap, once the
\* previous action has ended when they follow each other, once when a
\* single action is followed.
MayStart ==
    CASE schedule = "overlapping" -> TRUE
      [] schedule = "sequential" -> Quiet
      [] OTHER -> \A k \in Invocations : calls[k].op = "idle"

\* A handler is invoked (when MayStart): the invocation takes the record c.
Start(c) ==
    /\ NotStarted # {}
    /\ calls' = [calls EXCEPT ![NextCall] = Finish(c)]

\* ------------------------------------------------------------- ledger
\* generateTransactionRef: the prefix and the millisecond read.
generateTransactionRef(prefix, t) == <<prefix, t>>

\* What Date.now() can return: the millisecond last seen or a later one.
ClockReadings == {now} \cup (IF now < MaxClock THEN {now + 1} ELSE {})

\* A row of stock_movements.  `call` is the invocation that issued it (not
\* a column of the table).
Movement(call, p, type, change, old, new, ref) ==
    [call |-> call, product_id |-> p, change_type |-> type,
     quantity_change |-> change, old_stock_level |-> old,
     new_stock_level |-> new, transaction_ref |-> ref]

\* An insert that replaces what the table held.
addStockMovementOverwrite(ok, m) ==
    movements' = IF ok THEN <<m>> ELSE movements

\* addStockMovement: one insert into stock_movements.
addStockMovement(ok, m) ==
    movements' = IF ok THEN Append(movements, m) ELSE movements

\* getStockMovements: the rows of the ledger, the latest first, up to the
\* limit of the query.
FetchLimit == 500
\* The rows MovementManager lists.
RecentShown == 15

Reverse(s) == [i \in 1 .. Len(s) |-> s[Len(s) + 1 - i]]
Take(s, n) == SubSeq(s, 1, IF Len(s) < n THEN Len(s) ELSE n)

getStockMovements == Take(Reverse(movements), FetchLimit)

\* The tables App subscribes to, and what a select of each returns.
Tables == {"products", "inventory_submissions", "stock_movements"}

StoreTable(tbl) ==
    CASE tbl = "products" -> products
      [] tbl = "inventory_submissions" -> [s \in SubIds |-> submissions[s].status]
      [] OTHER -> getStockMovements

\* The re-fetches followed at a time.
MaxRefetch == 2

NoFetch == [st |-> "free", table |-> "products", data |-> <<>>]

\* No re-fetch is under way and no notification is due.
NoRefetch ==
    /\ seen = [tbl \in Tables |-> StoreTable(tbl)]
    /\ refetches = [i \in 1 .. MaxRefetch |-> NoFetch]

\* ------------------------------------------------------------- accounts
\* E-mail addresses, as local part and domain: that of depot 1, the same
\* local part elsewhere, and that of an admin.
DepotDomain == "pasteur.tn"
NoEmail == [local |-> "", domain |-> ""]
Emails == {[local |-> "1", domain |-> DepotDomain],
           [local |-> "1", domain |-> "ipt.tn"],
           [local |-> "admin", domain |-> "ipt.tn"]}
\* No session is open.
NoSession == [local |-> "-", domain |-> "-"]
AdminEmail == [local |-> "admin", domain |-> "ipt.tn"]

DepotIds == {"1"}

\* Rows of the table users (role, status) and of the table depots.
NoProfile == [role |-> "none", status |-> "none"]
Profiles == [role : {"admin", "depot"}, status : {"active", "inactive"}]
NoDepot == [active |-> FALSE, st |-> "none"]
DepotRows == [active : BOOLEAN, st : {"live"}]

\* No authService call has been made.
NoAuth == [fn |-> "none", pc |-> "done", email |-> NoEmail, authed |-> FALSE,
           depotId |-> "", profile |-> NoProfile, out |-> "none",
           user |-> NoProfile]

\* An admin is signed in and no authService call is under way.
SignedIn ==
    /\ users = [e \in Emails |->
                   IF e = AdminEmail THEN [role |-> "admin", status |-> "active"]
                   ELSE NoProfile]
    /\ depots = [d \in DepotIds |-> [active |-> TRUE, st |-> "live"]]
    /\ session = AdminEmail
    /\ auth = NoAuth

\* getUserProfile: the depot id of /^(\d+)@pasteur\.tn$/, "" when the
\* address does not match.
DigitLocals == {"1"}
MatchDepotId(email) ==
    IF email.domain = DepotDomain /\ email.local \in DigitLocals
    THEN email.local ELSE ""

\* signInDepotUser: email.split('@')[0].
SplitDepotId(email) == email.local

\* The select of one row of depots by id, and of users by e-mail: single()
\* gives an error when no row matches.
DepotRow(ok, id) ==
    IF ok /\ id \in DepotIds /\ depots[id].st = "live" THEN depots[id] ELSE NoDepot

ProfileRow(ok, email) ==
    IF ok /\ email \in DOMAIN users THEN users[email] ELSE NoProfile

\* A depot check that admits an inactive depot.
depotAdmittedInactive(depot) == depot.st = "live"

\* The depot checks: the row was found and is active.
depotAdmitted(depot) == depot.st = "live" /\ depot.active

\* The admin checks of getUserProfile: found, an admin, active.
profileAdmitted(profile) == profile.role = "admin" /\ profile.status = "active"

\* What every function builds for a depot.
depotUser == [role |-> "depot", status |-> "active"]

AuthIdle == auth.pc = "done"

AuthReturn(out, user) ==
    [auth EXCEPT !.pc = "done", !.out = out, !.user = user]

\* supabase.auth.signInWithPassword as the sign-in functions use it: an
\* error, no error and no user, or a user, whose session is then open.
signInWithPassword(fn, email, outcome) ==
    /\ session' = IF outcome = "user" THEN email ELSE session
    /\ auth' = [NoAuth EXCEPT !.fn = fn, !.email = email,
                              !.authed = (outcome = "user"),
                              !.pc = IF outcome = "user" THEN "start" ELSE "done"]

\* signInAdminUser, first await: the authentication; then the select of the
\* profile is sent.
signInAdminUser(email) ==
    /\ AuthIdle /\ session = NoSession
    /\ \E outcome \in {"error", "nouser", "user"} :
        /\ signInWithPassword("signInAdminUser", email, outcome)
        /\ UNCHANGED <<users, depots>>
    /\ UNCHANGED <<products, submissions, movements, now, calls, localProducts,
                   localSubmissions, chatMessages, csvExports, stagedItems,
                   localMovements, seen, refetches, schedule>>

\* signInAdminUser, the profile: not found or not an admin, sign out; not
\* active, reactivate; else the user is returned.
signInAdminProfile ==
    /\ auth.fn = "signInAdminUser" /\ auth.pc = "start"
    /\ \E ok \in BOOLEAN :
        LET profileData == ProfileRow(ok, auth.email)
        IN auth' = CASE profileData = NoProfile -> [auth EXCEPT !.pc = "signOut"]
                     [] profileData.role # "admin" -> [auth EXCEPT !.pc = "signOut"]
                     [] profileData.status # "active" ->
                           [auth EXCEPT !.pc = "reactivate", !.profile = profileData]
                     [] OTHER -> AuthReturn("user", profileData)
    /\ UNCHANGED <<users, depots, session>>
    /\ UNCHANGED <<products, submissions, movements, now, calls, localProducts,
                   localSubmissions, chatMessages, csvExports, stagedItems,
                   localMovements, seen, refetches, schedule>>

\* signInAdminUser, the automatic reactivation: the update of the status,
\* then the user is returned as active; when the update fails, sign out.
signInAdminReactivate ==
    /\ auth.fn = "signInAdminUser" /\ auth.pc = "reactivate"
    /\ \E ok \in BOOLEAN :
        /\ users' = IF ok THEN [users EXCEPT ![auth.email].status = "active"]
                    ELSE users
        /\ auth' = IF ok
                   THEN AuthReturn("user", [auth.profile EXCEPT !.status = "active"])
                   ELSE [auth EXCEPT !.pc = "signOut"]
    /\ UNCHANGED <<depots, session>>
    /\ UNCHANGED <<products, submissions, movements, now, calls, localProducts,
                   localSubmissions, chatMessages, csvExports, stagedItems,
                   localMovements, seen, refetches, schedule>>

\* signInDepotUser, first await: the authentication; then the depot id is
\* taken from the address and the select of the depot is sent.
signInDepotUser(email) ==
    /\ AuthIdle /\ session = NoSession
    /\ \E outcome \in {"error", "nouser", "user"} :
        /\ signInWithPassword("signInDepotUser", email, outcome)
        /\ UNCHANGED <<users, depots>>
    /\ UNCHANGED <<products, submissions, movements, now, calls, localProducts,
                   localSubmissions, chatMessages, csvExports, stagedItems,
                   localMovements, seen, refetches, schedule>>

\* signInDepotUser, the depot: no id in the address, not found or inactive,
\* sign out; else the depot's user is returned.
signInDepotProfile ==
    /\ auth.fn = "signInDepotUser" /\ auth.pc = "start"
    /\ \E ok \in BOOLEAN :
        LET depotId == SplitDepotId(auth.email)
            depot == DepotRow(ok, depotId)
        IN auth' = IF depotId # "" /\ depotAdmitted(depot)
                   THEN AuthReturn("user", depotUser)
                   ELSE [auth EXCEPT !.pc = "signOut"]
    /\ UNCHANGED <<users, depots, session>>
    /\ UNCHANGED <<products, submissions, movements, now, calls, localProducts,
                   localSubmissions, chatMessages, csvExports, stagedItems,
                   localMovements, seen, refetches, schedule>>

\* getUserProfile, called by App with the user of the session: the select
\* of the depot or of the profile is sent, as the address says.
getUserProfile ==
    /\ AuthIdle /\ session # NoSession
    /\ auth' = [NoAuth EXCEPT !.fn = "getUserProfile", !.email = session,
                              !.authed = TRUE, !.pc = "start",
                              !.depotId = MatchDepotId(session)]
    /\ UNCHANGED <<users, depots, session>>
    /\ UNCHANGED <<products, submissions, movements, now, calls, localProducts,
                   localSubmissions, chatMessages, csvExports, stagedItems,
                   localMovements, seen, refetches, schedule>>

\* getUserProfile, the row: a depot not found or inactive, a profile not
\* found, not an admin or not active, sign out; else the user is returned.
getUserProfileRow ==
    /\ auth.fn = "getUserProfile" /\ auth.pc = "start"
    /\ \E ok \in BOOLEAN :
        LET depot == DepotRow(ok, auth.depotId)
            profileData == ProfileRow(ok, auth.email)
        IN auth' = CASE auth.depotId # "" /\ depotAdmitted(depot) ->
                           AuthReturn("user", depotUser)
                     [] auth.depotId = "" /\ profileAdmitted(profileData) ->
                           AuthReturn("user", profileData)
                     [] OTHER -> [auth EXCEPT !.pc = "signOut"]
    /\ UNCHANGED <<users, depots, session>>
    /\ UNCHANGED <<products, submissions, movements, now, calls, localProducts,
                   localSubmissions, chatMessages, csvExports, stagedItems,
                   localMovements, seen, refetches, schedule>>

\* await supabase.auth.signOut() of the refusing branches, after which no
\* user is returned.
authSignOut ==
    /\ auth.pc = "signOut"
    /\ session' = NoSession
    /\ auth' = AuthReturn("none", NoProfile)
    /\ UNCHANGED <<users, depots>>
    /\ UNCHANGED <<products, submissions, movements, now, calls, localProducts,
                   localSubmissions, chatMessages, csvExports, stagedItems,
                   localMovements, seen, refetches, schedule>>

\* App.handleLogout: signOut.
handleLogout ==
    /\ AuthIdle /\ session # NoSession
    /\ session' = NoSession
    /\ UNCHANGED <<users, depots, auth>>
    /\ UNCHANGED <<products, submissions, movements, now, calls, localProducts,
                   localSubmissions, chatMessages, csvExports, stagedItems,
                   localMovements, seen, refetches, schedule>>

\* ------------------------------------------------------------- initial state
\* Two products stored in depot A and one submission of depot A awaiting
\* review; the cached tables are those of the initial fetch.
InitProducts ==
    [p \in ProductIds |->
        CASE p = "p1" -> [st |-> "live", code |-> "c1", location |-> "A", stock |-> 1]
          [] p = "p2" -> [st |-> "live", code |-> "c2", location |-> "A", stock |-> 2]
          [] OTHER -> NoProduct]

InitSubmissions ==
    [s \in SubIds |->
        IF s = "s1"
        THEN [status |-> "pending", depotName |-> "A",
              items |-> [p \in ProductIds |->
                            CASE p = "p1" -> 2 [] p = "p2" -> 1 [] OTHER -> 0]]
        ELSE NoSubmission]

StatusesOf(tbl) == [s \in SubIds |-> tbl[s].status]

InitStore ==
    /\ submissions = InitSubmissions
    /\ movements = <<>>
    /\ now = 0
    /\ calls = [k \in Invocations |-> Idle]
    /\ localSubmissions = StatusesOf(InitSubmissions)
    /\ chatMessages = 0
    /\ csvExports = 0
    /\ stagedItems = <<>>
    /\ localMovements = <<>>

\* Any stock of the two products, and a cached table that may still show an
\* earlier stock of the first; one action of a user is followed.
Init ==
    /\ InitStore
    /\ \E n1 \in 0 .. MaxQty, n2 \in 0 .. MaxQty, cached \in 0 .. MaxQty :
        /\ products = [InitProducts EXCEPT !["p1"].stock = n1, !["p2"].stock = n2]
        /\ localProducts = [products EXCEPT !["p1"].stock = cached]
    /\ schedule = "single"
    /\ NoRefetch
    /\ SignedIn

\* The cached table is the stored one; the actions follow each other.
InitSequence ==
    /\ InitStore
    /\ products = InitProducts
    /\ localProducts = InitProducts
    /\ schedule = "sequential"
    /\ NoRefetch
    /\ SignedIn

\* The cached table is the stored one; the actions overlap.
InitOverlap ==
    /\ InitStore
    /\ products = InitProducts
    /\ localProducts = InitProducts
    /\ schedule = "overlapping"
    /\ NoRefetch
    /\ SignedIn

\* ------------------------------------------------------------- change feed
\* The subscription callbacks of App: re-fetch the whole table and replace
\* the cached copy.
onProductsChange ==
    /\ localProducts # products
    /\ localProducts' = products
    /\ UNCHANGED <<aside, products, submissions, movements, now, calls,
                   localSubmissions>>

onSubmissionsChange ==
    /\ localSubmissions # StatusesOf(submissions)
    /\ localSubmissions' = StatusesOf(submissions)
    /\ UNCHANGED <<aside, products, submissions, movements, now, calls,
                   localProducts>>

onMovementsChange ==
    /\ localMovements # getStockMovements
    /\ localMovements' = getStockMovements
    /\ UNCHANGED <<accounts, schedule, seen, refetches, chatMessages, csvExports,
                   stagedItems, products, submissions, movements, now, calls,
                   localProducts, localSubmissions>>

\* The same callbacks step by step.  subscribeToTableChanges: a change of
\* the table is notified and the callback of the table starts a re-fetch.
FreeFetches == {i \in DOMAIN refetches : refetches[i].st = "free"}

notify(tbl) ==
    /\ seen[tbl] # StoreTable(tbl)
    /\ FreeFetches # {}
    /\ seen' = [seen EXCEPT ![tbl] = StoreTable(tbl)]
    /\ LET i == CHOOSE i \in FreeFetches : \A j \in FreeFetches : i <= j
       IN refetches' = [refetches EXCEPT ![i] =
                           [st |-> "read", table |-> tbl, data |-> <<>>]]
    /\ UNCHANGED <<accounts, schedule, chatMessages, csvExports, stagedItems, products,
                   submissions, movements, now, calls, localProducts,
                   localSubmissions, localMovements>>

\* The select of a re-fetch is answered by the store: with the table as it
\* is now, or with an error, which the callback logs.
refetchRead(i) ==
    /\ refetches[i].st = "read"
    /\ \E ok \in BOOLEAN :
        refetches' = [refetches EXCEPT ![i] =
            IF ok THEN [refetches[i] EXCEPT !.st = "apply",
                                            !.data = StoreTable(refetches[i].table)]
            ELSE [refetches[i] EXCEPT !.st = "failed"]]
    /\ UNCHANGED <<accounts, schedule, seen, chatMessages, csvExports, stagedItems,
                   products, submissions, movements, now, calls, localProducts,
                   localSubmissions, localMovements>>

\* The answer of a re-fetch reaches the callback, which sets the cached
\* table to it.
refetchApply(i) ==
    /\ refetches[i].st = "apply"
    /\ LET f == refetches[i]
       IN /\ localProducts' = IF f.table = "products" THEN f.data ELSE localProducts
          /\ localSubmissions' = IF f.table = "inventory_submissions" THEN f.data
                                 ELSE localSubmissions
          /\ localMovements' = IF f.table = "stock_movements" THEN f.data
                               ELSE localMovements
    /\ refetches' = [refetches EXCEPT ![i] = NoFetch]
    /\ UNCHANGED <<accounts, schedule, seen, chatMessages, csvExports, stagedItems,
                   products, submissions, movements, now, calls>>

\* ------------------------------------------------------------- ledger views
\* trim().toLowerCase() of a depot name or of a product's location.
TrimLower(name) ==
    CASE name = "A" -> "a"
      [] name = "B" -> "b"
      [] name = "NS" -> "ns"
      [] OTHER -> name

\* MovementManager.depotProducts: the cached products located in the depot
\* selected.
depotProducts(depotName) ==
    {p \in ProductIds : /\ Live(localProducts, p)
                        /\ TrimLower(localProducts[p].location) = TrimLower(depotName)}

\* MovementManager.depotMovements: the most recent cached rows of these
\* products.
depotMovements(depotName) ==
    LET ofDepot(m) == m.product_id \in depotProducts(depotName)
    IN Take(SelectSeq(localMovements, ofDepot), RecentShown)

\* A location taken from the products as they were first fetched.
MovementLocationAtFetch(m) == InitProducts[m.product_id].location

\* MovementHistory.enrichedMovements: the location given to a cached row,
\* that of its product in the cached table.
MovementLocation(m) ==
    IF Live(localProducts, m.product_id)
    THEN localProducts[m.product_id].location
    ELSE "Inconnu"

\* MovementHistory.filteredMovements with a depot picked and no other
\* filter.
filteredMovements(filterDepot) ==
    LET depotMatch(m) == MovementLocation(m) = filterDepot
    IN SelectSeq(localMovements, depotMatch)

\* ------------------------------------------------------------- submissions
\* InventoryTab.handleQuantityChange: what the quantity input of a product
\* holds after a text is typed, from what parseInt makes of the text (not a
\* number, or an integer).
ParsedInputs ==
    {[nan |-> TRUE, num |-> 0]}
        \cup {[nan |-> FALSE, num |-> n] : n \in -1 .. MaxQty}

handleQuantityChange(parsed) ==
    IF parsed.nan \/ parsed.num < 0 THEN 0 ELSE parsed.num

\* The staged lines of a product.
LinesOf(list, p) == {i \in DOMAIN list : list[i].productId = p}

\* handleStageItem without its test of the lines already staged.
StageableAgain(quantity, p) == quantity > 0

\* The test of handleStageItem.
Stageable(quantity, p) == quantity > 0 /\ LinesOf(stagedItems, p) = {}

\* InventoryTab.handleStageItem on a product of the cached catalogue, with
\* the quantity its input holds.
handleStageItem(p, quantity) ==
    /\ Live(localProducts, p)
    /\ stagedItems' =
          IF Stageable(quantity, p)
          THEN Append(stagedItems, [productId |-> p, quantity |-> quantity])
          ELSE stagedItems
    /\ UNCHANGED <<backdrop, products, submissions, movements, now, calls,
                   localProducts, localSubmissions, chatMessages, csvExports>>

\* InventoryTab.handleUnstageItem: the button of a staged line.
handleUnstageItem(p) ==
    /\ LinesOf(stagedItems, p) # {}
    /\ LET keep(line) == line.productId # p
       IN stagedItems' = SelectSeq(stagedItems, keep)
    /\ UNCHANGED <<backdrop, products, submissions, movements, now, calls,
                   localProducts, localSubmissions, chatMessages, csvExports>>

\* The items column of a submission, as product -> counted quantity (0 for
\* a product without a line), from the staged lines.
ItemsFrom(list) ==
    [p \in ProductIds |->
        IF LinesOf(list, p) = {} THEN 0
        ELSE list[CHOOSE i \in LinesOf(list, p) :
                     \A j \in LinesOf(list, p) : i <= j].quantity]

\* dataService.addSubmission: one insert of a pending submission.
addSubmission(ok, items) ==
    submissions' =
        IF ok
        THEN [submissions EXCEPT ![FreshSub] =
                 [status |-> "pending", depotName |-> UserDepot,
                  items |-> items]]
        ELSE submissions

\* A submit that sends its chat notification whatever the insert answered.
handleSubmitNotifyingAlways ==
    /\ MayStart
    /\ UnusedSubs # {}
    /\ stagedItems # <<>>
    /\ csvExports' = csvExports + 1
    /\ \E ok \in BOOLEAN :
        /\ addSubmission(ok, ItemsFrom(stagedItems))
        /\ Start([Idle EXCEPT !.op = "submit", !.pc = "notify", !.sub = FreshSub])
    /\ UNCHANGED <<backdrop, chatMessages, stagedItems, products, movements, now,
                   localProducts, localSubmissions>>

\* DepotInventory.handleSubmitInventory up to its first await: an empty list
\* is refused; otherwise the CSV file is downloaded, then addSubmission is
\* awaited; on its error the handler ends.
handleSubmitInventory ==
    /\ MayStart
    /\ UnusedSubs # {}
    /\ IF stagedItems = <<>>
       THEN /\ Start(Return([Idle EXCEPT !.op = "submit"], "refused"))
            /\ UNCHANGED <<csvExports, submissions>>
       ELSE /\ csvExports' = csvExports + 1
            /\ \E ok \in BOOLEAN :
                /\ addSubmission(ok, ItemsFrom(stagedItems))
                /\ Start(IF ok
                         THEN [Idle EXCEPT !.op = "submit", !.pc = "notify",
                                           !.sub = FreshSub]
                         ELSE Return([Idle EXCEPT !.op = "submit",
                                                  !.sub = FreshSub], "error"))
    /\ UNCHANGED <<backdrop, chatMessages, stagedItems, products, movements, now,
                   localProducts, localSubmissions>>

\* sendMessage: one insert into chat_messages.
sendMessage(ok) ==
    chatMessages' = IF ok THEN chatMessages + 1 ELSE chatMessages

\* A submit that takes its submission back when the notification fails.
submitNotifyRevoking(k) ==
    /\ At(k, "submit", "notify")
    /\ \E ok \in BOOLEAN :
        /\ sendMessage(ok)
        /\ submissions' = IF ok THEN submissions
                          ELSE [submissions EXCEPT ![calls[k].sub] = NoSubmission]
    /\ stagedItems' = <<>>
    /\ calls' = [calls EXCEPT ![k] = Return(calls[k], "ok")]
    /\ UNCHANGED <<backdrop, csvExports, products, movements, now,
                   localProducts, localSubmissions>>

\* handleSubmitInventory, second await: the chat notification, whose result
\* is not looked at; the handler then reports the success and empties the
\* staged list.
submitNotify(k) ==
    /\ At(k, "submit", "notify")
    /\ \E ok \in BOOLEAN : sendMessage(ok)
    /\ stagedItems' = <<>>
    /\ calls' = [calls EXCEPT ![k] = Return(calls[k], "ok")]
    /\ UNCHANGED <<backdrop, csvExports, products, submissions, movements, now,
                   localProducts, localSubmissions>>

\* updateSubmissionStatus: one update of the row's status, whatever the
\* status stored.
updateSubmissionStatus(ok, s, status) ==
    submissions' =
        IF ok /\ submissions[s].status # "none"
        THEN [submissions EXCEPT ![s].status = status]
        ELSE submissions

\* Dashboard.handleReject: offered on the submissions the cached table
\* shows as pending.
handleReject(s) ==
    /\ MayStart
    /\ localSubmissions[s] = "pending"
    /\ Start([Idle EXCEPT !.op = "reject", !.pc = "status", !.sub = s,
                          !.snap = localSubmissions])
    /\ UNCHANGED <<aside, products, submissions, movements, now, localProducts,
                   localSubmissions>>

\* A rejection that also writes the counted quantities to the products.
rejectStatusApplying(k) ==
    /\ At(k, "reject", "status")
    /\ \E ok \in BOOLEAN :
        /\ updateSubmissionStatus(ok, calls[k].sub, "rejected")
        /\ products' =
              [p \in ProductIds |->
                  IF ok /\ p \in ItemsOf(calls[k].sub) /\ Live(products, p)
                  THEN [products[p] EXCEPT !.stock = submissions[calls[k].sub].items[p]]
                  ELSE products[p]]
        /\ calls' = [calls EXCEPT ![k] =
              Return(calls[k], IF ok THEN "ok" ELSE "error")]
        /\ localSubmissions' =
              IF ok THEN [calls[k].snap EXCEPT ![calls[k].sub] = "rejected"]
              ELSE localSubmissions
    /\ UNCHANGED <<aside, movements, now, localProducts>>

\* A rejection that marks the cached row rejected before the store answers.
rejectStatusOptimistic(k) ==
    /\ At(k, "reject", "status")
    /\ \E ok \in BOOLEAN :
        /\ updateSubmissionStatus(ok, calls[k].sub, "rejected")
        /\ calls' = [calls EXCEPT ![k] =
              Return(calls[k], IF ok THEN "ok" ELSE "error")]
    /\ localSubmissions' = [calls[k].snap EXCEPT ![calls[k].sub] = "rejected"]
    /\ UNCHANGED <<aside, products, movements, now, localProducts>>

\* handleReject, its await: the status update; on success the cached list
\* captured at the click is written back with the row marked rejected.
rejectStatus(k) ==
    /\ At(k, "reject", "status")
    /\ \E ok \in BOOLEAN :
        /\ updateSubmissionStatus(ok, calls[k].sub, "rejected")
        /\ calls' = [calls EXCEPT ![k] =
              Return(calls[k], IF ok THEN "ok" ELSE "error")]
        /\ localSubmissions' =
              IF ok THEN [calls[k].snap EXCEPT ![calls[k].sub] = "rejected"]
              ELSE localSubmissions
    /\ UNCHANGED <<aside, products, movements, now, localProducts>>

\* ------------------------------------------------------------- approval
\* Dashboard.handleApprove: the confirm button of the approval modal, opened
\* from the pending tab.
handleApprove(s) ==
    /\ MayStart
    /\ localSubmissions[s] = "pending"
    /\ Start([Idle EXCEPT !.op = "approve", !.pc = "status", !.sub = s,
                          !.snap = localSubmissions])
    /\ UNCHANGED <<aside, products, submissions, movements, now, localProducts,
                   localSubmissions>>

\* The promise chains approveSubmission starts: one per item, each at its
\* select.
approveUpdates(s) ==
    [p \in ProductIds |->
        [st |-> IF p \in ItemsOf(s) THEN "read" ELSE "none", old |-> 0]]

\* approveSubmission without its early return: the error of the status
\* update is returned, yet the item chains are started.
approveStatusNoAbort(k) ==
    /\ At(k, "approve", "status")
    /\ \E ok \in BOOLEAN, t \in ClockReadings :
        /\ updateSubmissionStatus(ok, calls[k].sub, "approved")
        /\ now' = t
        /\ calls' = [calls EXCEPT
              ![k].pc = IF ok THEN "join" ELSE "done",
              ![k].res = IF ok THEN "none" ELSE "statusError",
              ![k].ref = generateTransactionRef("INV", t),
              ![k].it = approveUpdates(calls[k].sub)]
    /\ UNCHANGED <<aside, products, movements, localProducts, localSubmissions>>

\* approveSubmission, first await: the status update.  On an error the
\* function returns it; otherwise the reference is generated and the item
\* chains are started.
approveStatus(k) ==
    /\ At(k, "approve", "status")
    /\ \E ok \in BOOLEAN :
        /\ updateSubmissionStatus(ok, calls[k].sub, "approved")
        /\ IF ok
           THEN \E t \in ClockReadings :
                /\ now' = t
                /\ calls' = [calls EXCEPT
                      ![k].pc = "join",
                      ![k].ref = generateTransactionRef("INV", t),
                      ![k].it = approveUpdates(calls[k].sub)]
           ELSE /\ now' = now
                /\ calls' = [calls EXCEPT ![k] = Return(calls[k], "statusError")]
    /\ UNCHANGED <<aside, products, movements, localProducts, localSubmissions>>

\* The rejection of one item's promise: Promise.all rejects on the first one
\* and the catch block sends the status roll-back.
approveItemCancelling(c, p) ==
    Finish([c EXCEPT !.it = [r \in ProductIds |->
                                IF r = p \/ ~Settled(c.it[r].st)
                                THEN [c.it[r] EXCEPT !.st = "failed"]
                                ELSE c.it[r]],
                     !.pc = IF c.pc = "join" THEN "rollback" ELSE c.pc])

approveItemFailed(c, p) ==
    Finish([c EXCEPT !.it[p].st = "failed",
                     !.pc = IF c.pc = "join" THEN "rollback" ELSE c.pc])

\* An item's select of the product's stock.
approveRead(k, p) ==
    /\ calls[k].op = "approve" /\ ItemAt(k, p, "read")
    /\ \E ok \in BOOLEAN :
        calls' = [calls EXCEPT ![k] =
            IF ok /\ Live(products, p)
            THEN [calls[k] EXCEPT !.it[p] = [st |-> "write", old |-> products[p].stock]]
            ELSE approveItemFailed(calls[k], p)]
    /\ UNCHANGED <<aside, products, submissions, movements, now,
                   localProducts, localSubmissions>>

\* An approved item that adds the counted quantity to the stock it read.
approveNewStockAdded(c, p) == c.it[p].old + submissions[c.sub].items[p]

\* The stock an approved item sets: the counted quantity.
approveNewStock(c, p) == submissions[c.sub].items[p]

\* An item's update of the product's stock.
approveWrite(k, p) ==
    /\ calls[k].op = "approve" /\ ItemAt(k, p, "write")
    /\ \E ok \in BOOLEAN :
        /\ products' =
              IF ok /\ Live(products, p)
              THEN [products EXCEPT ![p].stock = approveNewStock(calls[k], p)]
              ELSE products
        /\ calls' = [calls EXCEPT ![k] =
              IF ok THEN [calls[k] EXCEPT !.it[p].st = "log"]
              ELSE approveItemFailed(calls[k], p)]
    /\ UNCHANGED <<aside, submissions, movements, now, localProducts,
                   localSubmissions>>

\* A reference generated anew for each ledger row of the batch.
approveRefPerRow(c) == generateTransactionRef("INV", Len(movements) + 1)

\* The reference of an item's ledger row: the one generated up front.
approveRef(c) == c.ref

\* An item's row that records the counted quantity as the change.
approveMovementAdditive(k, p) ==
    LET oldStock == calls[k].it[p].old
        newStock == approveNewStock(calls[k], p)
    IN Movement(k, p, "submission", newStock, oldStock, newStock,
                approveRef(calls[k]))

approveMovement(k, p) ==
    LET oldStock == calls[k].it[p].old
        newStock == approveNewStock(calls[k], p)
        quantityChange == newStock - oldStock
    IN Movement(k, p, "submission", quantityChange, oldStock, newStock,
                approveRef(calls[k]))

\* An item's ledger insert, whose result is not looked at; when it was the
\* last item pending and none failed, Promise.all resolves, approveSubmission
\* returns no error and handleApprove marks the cached row approved.
approveLog(k, p) ==
    /\ calls[k].op = "approve" /\ ItemAt(k, p, "log")
    /\ \E ok \in BOOLEAN :
        /\ addStockMovement(ok, approveMovement(k, p))
        /\ LET c == [calls[k] EXCEPT !.it[p].st = "ok"]
               resolved == c.pc = "join"
                           /\ \A r \in ProductIds : c.it[r].st \in {"none", "ok"}
           IN /\ calls' = [calls EXCEPT ![k] =
                    IF resolved THEN Return(c, "ok") ELSE Finish(c)]
              /\ localSubmissions' =
                    IF resolved THEN [c.snap EXCEPT ![c.sub] = "approved"]
                    ELSE localSubmissions
    /\ UNCHANGED <<aside, products, submissions, now, localProducts>>

\* The catch block: one status update back to pending, whose result is not
\* looked at, then the error is returned.
approveRollback(k) ==
    /\ At(k, "approve", "rollback")
    /\ \E ok \in BOOLEAN :
        /\ updateSubmissionStatus(ok, calls[k].sub, "pending")
        /\ calls' = [calls EXCEPT ![k] = Return(calls[k], "stockError")]
    /\ UNCHANGED <<aside, products, movements, now, localProducts,
                   localSubmissions>>

\* ------------------------------------------------------------- products
\* The stock values the product form accepts: parseInt(value, 10) || 0 of a
\* number input that sets no minimum.
FormStocks == -1 .. MaxQty

\* ProductManager.handleSaveProduct with addProduct, first await: the insert
\* of the row.
addProduct(code, location, stock) ==
    /\ MayStart
    /\ Unused # {}
    /\ \E ok \in BOOLEAN :
        IF ok
        THEN \E t \in ClockReadings :
             /\ products' = [products EXCEPT ![FreshId] =
                   [st |-> "live", code |-> code, location |-> location,
                    stock |-> stock]]
             /\ now' = t
             /\ Start([Idle EXCEPT !.op = "add", !.pc = "log", !.p = FreshId,
                                   !.q = stock,
                                   !.ref = generateTransactionRef("CRE", t)])
        ELSE /\ Start(Return([Idle EXCEPT !.op = "add"], "error"))
             /\ UNCHANGED <<products, now>>
    /\ UNCHANGED <<aside, submissions, movements, localProducts, localSubmissions>>

addProductMovement(k) ==
    Movement(k, calls[k].p, "initial", calls[k].q, 0, calls[k].q, calls[k].ref)

\* addProduct, second await: the ledger insert, whose result is not looked
\* at.
addProductLog(k) ==
    /\ At(k, "add", "log")
    /\ \E ok \in BOOLEAN : addStockMovement(ok, addProductMovement(k))
    /\ calls' = [calls EXCEPT ![k] = Return(calls[k], "ok")]
    /\ UNCHANGED <<aside, products, submissions, now, localProducts, localSubmissions>>

\* handleSaveProduct or StockUpdateModal.handleConfirmUpdate with
\* updateProduct, first await: the select of the stored stock.  The form
\* holds a row of the cached table.
updateProduct(p, stock, location) ==
    /\ MayStart
    /\ Live(localProducts, p)
    /\ \E ok \in BOOLEAN :
        IF ok /\ Live(products, p)
        THEN Start([Idle EXCEPT !.op = "update", !.pc = "write", !.p = p,
                                !.q = stock, !.old = products[p].stock,
                                !.depot = location])
        ELSE Start(Return([Idle EXCEPT !.op = "update"], "error"))
    /\ UNCHANGED <<aside, products, submissions, movements, now, localProducts,
                   localSubmissions>>

\* updateProduct without its test of the change.
updateLoggedAlways(quantityChange) == TRUE

\* Whether updateProduct writes a ledger row for this change of stock.
updateLogged(quantityChange) == quantityChange # 0

\* updateProduct, second await: the update of the row, which returns it.
updateProductWrite(k) ==
    /\ At(k, "update", "write")
    /\ LET c == calls[k]
           quantityChange == c.q - c.old
       IN \E ok \in BOOLEAN :
          IF ok /\ Live(products, c.p)
          THEN /\ products' = [products EXCEPT ![c.p].stock = c.q,
                                               ![c.p].location = c.depot]
               /\ IF updateLogged(quantityChange)
                  THEN \E t \in ClockReadings :
                       /\ now' = t
                       /\ calls' = [calls EXCEPT ![k].pc = "log",
                             ![k].ref = generateTransactionRef("MAJ", t)]
                  ELSE /\ now' = now
                       /\ calls' = [calls EXCEPT ![k] = Return(c, "ok")]
          ELSE /\ calls' = [calls EXCEPT ![k] = Return(c, "error")]
               /\ UNCHANGED <<products, now>>
    /\ UNCHANGED <<aside, submissions, movements, localProducts, localSubmissions>>

updateMovement(k) ==
    LET oldStock == calls[k].old
        quantityChange == calls[k].q - oldStock
    IN Movement(k, calls[k].p, "update", quantityChange, oldStock,
                calls[k].q, calls[k].ref)

\* updateProduct, third await: the ledger insert, whose result is not looked
\* at.
updateProductLog(k) ==
    /\ At(k, "update", "log")
    /\ \E ok \in BOOLEAN : addStockMovement(ok, updateMovement(k))
    /\ calls' = [calls EXCEPT ![k] = Return(calls[k], "ok")]
    /\ UNCHANGED <<aside, products, submissions, now, localProducts, localSubmissions>>

\* ProductManager.handleDeleteProduct with deleteProduct: one delete.
deleteProduct(p) ==
    /\ MayStart
    /\ Live(localProducts, p)
    /\ \E ok \in BOOLEAN :
        /\ products' = IF ok /\ Live(products, p)
                       THEN [products EXCEPT ![p] = GoneProduct]
                       ELSE products
        /\ Start(Return([Idle EXCEPT !.op = "delete"],
                        IF ok THEN "ok" ELSE "error"))
    /\ UNCHANGED <<aside, submissions, movements, now, localProducts, localSubmissions>>

\* handleProductImport: one bulk insert of the extracted rows (here one
\* row), without any ledger row.
handleProductImport(code, stock) ==
    /\ MayStart
    /\ Unused # {}
    /\ \E ok \in BOOLEAN :
        /\ products' =
              IF ok
              THEN [products EXCEPT ![FreshId] =
                      [st |-> "live", code |-> code,
                       location |-> ImportLocation, stock |-> stock]]
              ELSE products
        /\ Start(Return([Idle EXCEPT !.op = "import"],
                        IF ok THEN "ok" ELSE "error"))
    /\ UNCHANGED <<aside, submissions, movements, now, localProducts, localSubmissions>>

\* ------------------------------------------------------------- movements
\* StockExitTab.handleConsumption with depotRecordConsumption, up to the
\* first await.  `product` is a row of the cached table, listed when it is
\* in the user's depot with a stock above 0.  A quantity above product.stock
\* is refused (by the handler, and by the function) before any store call;
\* otherwise the stock computed from product.stock is written.
handleConsumption(p, quantity) ==
    /\ MayStart
    /\ Live(localProducts, p)
    /\ localProducts[p].location = UserDepot
    /\ localProducts[p].stock > 0
    /\ LET oldStock == localProducts[p].stock
           newStock == oldStock - quantity
       IN IF newStock < 0
          THEN /\ Start(Return([Idle EXCEPT !.op = "consume"], "refused"))
               /\ UNCHANGED <<products, now>>
          ELSE \E ok \in BOOLEAN :
               IF ok
               THEN \E t \in ClockReadings :
                    /\ products' = IF Live(products, p)
                                   THEN [products EXCEPT ![p].stock = newStock]
                                   ELSE products
                    /\ now' = t
                    /\ Start([Idle EXCEPT !.op = "consume", !.pc = "log",
                                          !.p = p, !.q = quantity,
                                          !.old = oldStock,
                                          !.ref = generateTransactionRef("CON", t)])
               ELSE /\ Start(Return([Idle EXCEPT !.op = "consume"], "error"))
                    /\ UNCHANGED <<products, now>>
    /\ UNCHANGED <<aside, submissions, movements, localProducts, localSubmissions>>

consumptionMovement(k) ==
    LET oldStock == calls[k].old
        newStock == oldStock - calls[k].q
    IN Movement(k, calls[k].p, "consumption", -calls[k].q, oldStock, newStock,
                calls[k].ref)

\* depotRecordConsumption, second await: the ledger insert, whose result is
\* not looked at.
consumptionLog(k) ==
    /\ At(k, "consume", "log")
    /\ \E ok \in BOOLEAN : addStockMovement(ok, consumptionMovement(k))
    /\ calls' = [calls EXCEPT ![k] = Return(calls[k], "ok")]
    /\ UNCHANGED <<aside, products, submissions, now, localProducts, localSubmissions>>

\* An admin movement whose change is the quantity typed, entry or exit.
adminQuantityUnsigned(movementType, quantity) == quantity

\* The signed change of an admin movement.
adminQuantityChange(movementType, quantity) ==
    IF movementType = "admin_entry" THEN quantity ELSE -quantity

\* MovementManager.handleSubmit with adminCreateMovement, first await: the
\* select of the product, picked in the cached table.  A missing product or
\* a stock that would fall below 0 ends the call with an error.
adminCreateMovement(p, quantity, movementType) ==
    /\ MayStart
    /\ Live(localProducts, p)
    /\ \E ok \in BOOLEAN :
        IF ok /\ Live(products, p)
           /\ products[p].stock + adminQuantityChange(movementType, quantity) >= 0
        THEN Start([Idle EXCEPT !.op = "admin", !.pc = "write", !.p = p,
                                !.q = adminQuantityChange(movementType, quantity),
                                !.old = products[p].stock,
                                !.type = movementType])
        ELSE Start(Return([Idle EXCEPT !.op = "admin"], "error"))
    /\ UNCHANGED <<aside, products, submissions, movements, now, localProducts,
                   localSubmissions>>

\* adminCreateMovement, second await: the update of the stock.
adminWrite(k) ==
    /\ At(k, "admin", "write")
    /\ LET c == calls[k]
           newStock == c.old + c.q
           refPrefix == IF c.type = "admin_entry" THEN "ENT" ELSE "SOR"
       IN \E ok \in BOOLEAN :
          IF ok
          THEN \E t \in ClockReadings :
               /\ products' = IF Live(products, c.p)
                              THEN [products EXCEPT ![c.p].stock = newStock]
                              ELSE products
               /\ now' = t
               /\ calls' = [calls EXCEPT ![k].pc = "log",
                     ![k].ref = generateTransactionRef(refPrefix, t)]
          ELSE /\ calls' = [calls EXCEPT ![k] = Return(c, "error")]
               /\ UNCHANGED <<products, now>>
    /\ UNCHANGED <<aside, submissions, movements, localProducts, localSubmissions>>

adminMovement(k) ==
    LET oldStock == calls[k].old
        quantityChange == calls[k].q
        newStock == oldStock + quantityChange
    IN Movement(k, calls[k].p, calls[k].type, quantityChange, oldStock,
                newStock, calls[k].ref)

\* adminCreateMovement, third await: the ledger insert, whose result is not
\* looked at.
adminLog(k) ==
    /\ At(k, "admin", "log")
    /\ \E ok \in BOOLEAN : addStockMovement(ok, adminMovement(k))
    /\ calls' = [calls EXCEPT ![k] = Return(calls[k], "ok")]
    /\ UNCHANGED <<aside, products, submissions, now, localProducts, localSubmissions>>

\* ------------------------------------------------------------- bulk set
\* The live rows of a table with this code in this depot.
InDepot(tbl, code, depotName) ==
    {p \in ProductIds : Live(tbl, p) /\ tbl[p].code = code
                        /\ tbl[p].location = depotName}

\* DepotStockManager: the stock the form shows for a code in the depot, from
\* the cached table.
currentStock(code, depotName) ==
    IF InDepot(localProducts, code, depotName) = {} THEN 0
    ELSE LET p == CHOOSE r \in InDepot(localProducts, code, depotName) : TRUE
         IN localProducts[p].stock

\* DepotStockManager.handleSubmit: the forms that pass its filter.  A code
\* is a row of the form when the cached table holds a product with it; it is
\* sent when its new stock is a number >= 0 that differs from the one shown.
InventoryForms(depotName) ==
    {f \in UNION {[S -> 0 .. MaxQty] : S \in SUBSET Codes \ {{}}} :
        \A c \in DOMAIN f :
            /\ \E p \in ProductIds : Live(localProducts, p)
                                     /\ localProducts[p].code = c
            /\ f[c] # currentStock(c, depotName)}

\* The next item of the loop after place i (0: none left).
NextItem(it, i) ==
    LET later == {j \in DOMAIN CodeOrder : j > i /\ it[CodeOrder[j]].st = "todo"}
    IN IF later = {} THEN 0 ELSE CHOOSE j \in later : \A r \in later : j <= r

\* handleSubmit with setDepotInventory, up to the first await: the reference
\* is generated, the loop is at its first item.
setDepotInventory(depotName, inventory) ==
    /\ MayStart
    /\ LET it == [c \in Codes |->
                    [st |-> IF c \in DOMAIN inventory THEN "todo" ELSE "none",
                     q |-> IF c \in DOMAIN inventory THEN inventory[c] ELSE 0,
                     p |-> "p1", old |-> 0, kind |-> ""]]
       IN \E t \in ClockReadings :
          /\ now' = t
          /\ Start([Idle EXCEPT !.op = "bulk", !.pc = "find",
                                !.depot = depotName, !.it = it,
                                !.idx = NextItem(it, 0),
                                !.ref = generateTransactionRef("INV", t)])
    /\ UNCHANGED <<aside, products, submissions, movements, localProducts,
                   localSubmissions>>

\* await Promise.all(allPromises): it rejects as soon as one promise has
\* rejected and resolves once all have resolved; the invocation waits
\* otherwise.
bulkJoin(c) ==
    IF c.pc # "join" THEN Finish(c)
    ELSE IF \E i \in Codes : c.it[i].st = "failed" THEN Return(c, "error")
    ELSE IF \A i \in Codes : Settled(c.it[i].st) THEN Return(c, "ok")
    ELSE c

\* The loop's awaited lookup of the item's row, then what it dispatches.
\* The lookup is a select .single() on code and location: it gives the row
\* when exactly one matches, and the error PGRST116, which the loop ignores,
\* when none or several do.  Any other error skips the item.
bulkFind(k) ==
    /\ At(k, "bulk", "find")
    /\ LET c == calls[k]
           code == CodeOrder[c.idx]
           item == c.it[code]
           found == InDepot(products, code, c.depot)
           existing == CHOOSE p \in found : TRUE
       IN \E ok \in BOOLEAN :
          LET next ==
                IF ~ok THEN [item EXCEPT !.st = "skip"]
                ELSE IF Cardinality(found) = 1
                THEN IF products[existing].stock # item.q
                     THEN [item EXCEPT !.st = "write", !.p = existing,
                                       !.old = products[existing].stock,
                                       !.kind = "inventory_count"]
                     ELSE [item EXCEPT !.st = "skip"]
                ELSE IF item.q > 0
                     THEN [item EXCEPT !.st = "insert", !.kind = "initial"]
                ELSE [item EXCEPT !.st = "skip"]
              it == [c.it EXCEPT ![code] = next]
              idx == NextItem(it, c.idx)
          IN calls' = [calls EXCEPT ![k] =
                bulkJoin([c EXCEPT !.it = it, !.idx = idx,
                                   !.pc = IF idx = 0 THEN "join" ELSE "find"])]
    /\ UNCHANGED <<aside, products, submissions, movements, now, localProducts,
                   localSubmissions>>

\* An existing row's update of the stock; the ledger insert is chained to it
\* whatever the update answered.
bulkWrite(k, code) ==
    /\ calls[k].op = "bulk" /\ ItemAt(k, code, "write")
    /\ LET item == calls[k].it[code]
       IN \E ok \in BOOLEAN :
          products' = IF ok /\ Live(products, item.p)
                      THEN [products EXCEPT ![item.p].stock = item.q]
                      ELSE products
    /\ calls' = [calls EXCEPT ![k].it[code].st = "log"]
    /\ UNCHANGED <<aside, submissions, movements, now, localProducts, localSubmissions>>

\* A missing row's insert in the depot; an error rejects the item's promise.
bulkInsert(k, code) ==
    /\ calls[k].op = "bulk" /\ ItemAt(k, code, "insert")
    /\ LET c == calls[k]
           item == c.it[code]
       IN \E ok \in BOOLEAN :
          IF ok
          THEN /\ Unused # {}
               /\ products' = [products EXCEPT ![FreshId] =
                     [st |-> "live", code |-> code, location |-> c.depot,
                      stock |-> item.q]]
               /\ calls' = [calls EXCEPT ![k].it[code] =
                     [item EXCEPT !.st = "log", !.p = FreshId]]
          ELSE /\ products' = products
               /\ calls' = [calls EXCEPT ![k] =
                     bulkJoin([c EXCEPT !.it[code].st = "failed"])]
    /\ UNCHANGED <<aside, submissions, movements, now, localProducts, localSubmissions>>

\* The reference of an item's ledger row: the one generated up front.
bulkRef(c) == c.ref

bulkMovement(k, code) ==
    LET item == calls[k].it[code]
        newStock == item.q
    IN IF item.kind = "initial"
       THEN Movement(k, item.p, "initial", newStock, 0, newStock,
                     bulkRef(calls[k]))
       ELSE Movement(k, item.p, "inventory_count", newStock - item.old,
                     item.old, newStock, bulkRef(calls[k]))

bulkLog(k, code) ==
    /\ calls[k].op = "bulk" /\ ItemAt(k, code, "log")
    /\ \E ok \in BOOLEAN : addStockMovement(ok, bulkMovement(k, code))
    /\ calls' = [calls EXCEPT ![k] =
          bulkJoin([calls[k] EXCEPT !.it[code].st = "ok"])]
    /\ UNCHANGED <<aside, products, submissions, now, localProducts, localSubmissions>>

\* ------------------------------------------------------------- specification
Feed == onProductsChange \/ onSubmissionsChange

\* A handler is invoked.
Invoke ==
    \/ \E s \in SubIds : handleReject(s)
    \/ \E s \in SubIds : handleApprove(s)
    \/ \E c \in Codes, d \in Depots, n \in FormStocks : addProduct(c, d, n)
    \/ \E p \in ProductIds, n \in FormStocks :
          updateProduct(p, n, localProducts[p].location)
    \/ \E p \in ProductIds : deleteProduct(p)
    \/ \E c \in Codes, n \in 0 .. MaxQty : handleProductImport(c, n)
    \/ \E p \in ProductIds, n \in 1 .. MaxQty : handleConsumption(p, n)
    \/ \E p \in ProductIds, n \in 1 .. MaxQty,
          m \in {"admin_entry", "admin_exit"} : adminCreateMovement(p, n, m)
    \/ \E d \in Depots : \E f \in InventoryForms(d) : setDepotInventory(d, f)

\* An awaited store call of an invocation in flight answers.
Answer ==
    \/ \E k \in Invocations : rejectStatus(k)
    \/ \E k \in Invocations : approveStatus(k)
    \/ \E k \in Invocations, p \in ProductIds : approveRead(k, p)
    \/ \E k \in Invocations, p \in ProductIds : approveWrite(k, p)
    \/ \E k \in Invocations, p \in ProductIds : approveLog(k, p)
    \/ \E k \in Invocations : approveRollback(k)
    \/ \E k \in Invocations : addProductLog(k)
    \/ \E k \in Invocations : updateProductWrite(k)
    \/ \E k \in Invocations : updateProductLog(k)
    \/ \E k \in Invocations : consumptionLog(k)
    \/ \E k \in Invocations : adminWrite(k)
    \/ \E k \in Invocations : adminLog(k)
    \/ \E k \in Invocations : bulkFind(k)
    \/ \E k \in Invocations, c \in Codes : bulkWrite(k, c)
    \/ \E k \in Invocations, c \in Codes : bulkInsert(k, c)
    \/ \E k \in Invocations, c \in Codes : bulkLog(k, c)

Next == Feed \/ Invoke \/ Answer

\* One handler runs, on any stored and cached stock.
Spec == Init /\ [][Next]_vars

\* The stock movements of single products, one after the other.
NextSequence ==
    \/ onProductsChange
    \/ \E p \in ProductIds, n \in FormStocks :
          updateProduct(p, n, localProducts[p].location)
    \/ \E p \in ProductIds, n \in 1 .. MaxQty : handleConsumption(p, n)
    \/ \E p \in ProductIds, n \in 1 .. MaxQty,
          m \in {"admin_entry", "admin_exit"} : adminCreateMovement(p, n, m)
    \/ \E k \in Invocations : updateProductWrite(k)
    \/ \E k \in Invocations : updateProductLog(k)
    \/ \E k \in Invocations : consumptionLog(k)
    \/ \E k \in Invocations : adminWrite(k)
    \/ \E k \in Invocations : adminLog(k)

SpecSequence == InitSequence /\ [][NextSequence]_vars

\* Deletions followed by the operations that name a product: admin movements
\* and approvals.
NextMissing ==
    \/ onProductsChange
    \/ onSubmissionsChange
    \/ \E p \in ProductIds : deleteProduct(p)
    \/ \E p \in ProductIds, n \in 1 .. MaxQty,
          m \in {"admin_entry", "admin_exit"} : adminCreateMovement(p, n, m)
    \/ \E s \in SubIds : handleApprove(s)
    \/ \E k \in Invocations : adminWrite(k)
    \/ \E k \in Invocations : adminLog(k)
    \/ \E k \in Invocations : approveStatus(k)
    \/ \E k \in Invocations, p \in ProductIds : approveRead(k, p)
    \/ \E k \in Invocations, p \in ProductIds : approveWrite(k, p)
    \/ \E k \in Invocations, p \in ProductIds : approveLog(k, p)
    \/ \E k \in Invocations : approveRollback(k)

SpecMissing == InitSequence /\ [][NextMissing]_vars

\* The review of submissions: approvals and rejections that overlap.
NextReview ==
    \/ onProductsChange
    \/ onSubmissionsChange
    \/ \E s \in SubIds : handleReject(s)
    \/ \E s \in SubIds : handleApprove(s)
    \/ \E k \in Invocations : rejectStatus(k)
    \/ \E k \in Invocations : approveStatus(k)
    \/ \E k \in Invocations, p \in ProductIds : approveRead(k, p)
    \/ \E k \in Invocations, p \in ProductIds : approveWrite(k, p)
    \/ \E k \in Invocations, p \in ProductIds : approveLog(k, p)
    \/ \E k \in Invocations : approveRollback(k)

SpecOverlap == InitOverlap /\ [][NextReview]_vars

\* No submission is stored yet; the actions of the depot user overlap.
InitSubmit ==
    /\ submissions = [s \in SubIds |-> NoSubmission]
    /\ localSubmissions = [s \in SubIds |-> "none"]
    /\ movements = <<>>
    /\ now = 0
    /\ calls = [k \in Invocations |-> Idle]
    /\ chatMessages = 0
    /\ csvExports = 0
    /\ stagedItems = <<>>
    /\ localMovements = <<>>
    /\ products = InitProducts
    /\ localProducts = InitProducts
    /\ schedule = "overlapping"
    /\ NoRefetch
    /\ SignedIn
    /\ NoRefetch
    /\ SignedIn

\* The depot user's inventory tab: lines are staged and unstaged, the list
\* is submitted.
NextSubmit ==
    \/ onSubmissionsChange
    \/ \E p \in ProductIds, parsed \in ParsedInputs :
          handleStageItem(p, handleQuantityChange(parsed))
    \/ \E p \in ProductIds : handleUnstageItem(p)
    \/ handleSubmitInventory
    \/ \E k \in Invocations : submitNotify(k)

SpecSubmit == InitSubmit /\ [][NextSubmit]_vars

\* The cached tables are the stored ones; one handler is followed, while
\* lines are staged and unstaged.
InitDesk ==
    /\ InitStore
    /\ products = InitProducts
    /\ localProducts = InitProducts
    /\ schedule = "single"
    /\ NoRefetch
    /\ SignedIn

\* The handlers that set the local state of the UI after a store call: the
\* depot's submit, the admin's approval and rejection.
NextDesk ==
    \/ onProductsChange
    \/ onSubmissionsChange
    \/ \E p \in ProductIds, parsed \in ParsedInputs :
          handleStageItem(p, handleQuantityChange(parsed))
    \/ \E p \in ProductIds : handleUnstageItem(p)
    \/ handleSubmitInventory
    \/ \E s \in SubIds : handleReject(s)
    \/ \E s \in SubIds : handleApprove(s)
    \/ \E k \in Invocations : submitNotify(k)
    \/ \E k \in Invocations : rejectStatus(k)
    \/ \E k \in Invocations : approveStatus(k)
    \/ \E k \in Invocations, p \in ProductIds : approveRead(k, p)
    \/ \E k \in Invocations, p \in ProductIds : approveWrite(k, p)
    \/ \E k \in Invocations, p \in ProductIds : approveLog(k, p)
    \/ \E k \in Invocations : approveRollback(k)

SpecDesk == InitDesk /\ [][NextDesk]_vars

\* A ledger that earlier activity has left for the first product: its
\* creation with a stock of 1, then exits and entries of 1 in turn.  These
\* rows belong to no invocation followed here.
EarlierLedger(n) ==
    [i \in 1 .. n |->
        IF i = 1
        THEN Movement(0, "p1", "initial", 1, 0, 1, generateTransactionRef("CRE", 0))
        ELSE IF i % 2 = 0
        THEN Movement(0, "p1", "admin_exit", -1, 1, 0, generateTransactionRef("SOR", 0))
        ELSE Movement(0, "p1", "admin_entry", 1, 0, 1, generateTransactionRef("ENT", 0))]

\* The lengths of the ledgers the views are followed on: short ones, and
\* those that pass the number of rows listed or fetched.
LedgerLengths == {1, RecentShown, RecentShown + 1, FetchLimit + 1}

\* The first product has a ledger; the cached tables are those of the
\* initial fetch; the actions follow each other.
InitLedger ==
    /\ submissions = InitSubmissions
    /\ localSubmissions = StatusesOf(InitSubmissions)
    /\ now = 0
    /\ calls = [k \in Invocations |-> Idle]
    /\ chatMessages = 0
    /\ csvExports = 0
    /\ stagedItems = <<>>
    /\ \E n \in LedgerLengths :
        /\ movements = EarlierLedger(n)
        /\ products = [InitProducts EXCEPT !["p1"].stock = n % 2]
    /\ localProducts = products
    /\ localMovements = getStockMovements
    /\ schedule = "sequential"
    /\ NoRefetch
    /\ SignedIn

\* Products are edited, their depot included, and the cached tables follow.
NextLedger ==
    \/ onProductsChange
    \/ onMovementsChange
    \/ \E p \in ProductIds, n \in FormStocks, d \in Depots : updateProduct(p, n, d)
    \/ \E k \in Invocations : updateProductWrite(k)
    \/ \E k \in Invocations : updateProductLog(k)

SpecLedger == InitLedger /\ [][NextLedger]_vars

\* Dashboard.handleApprove on a dashboard whose list has not been refreshed
\* (that of another admin): approveSubmission is given the submission object
\* and does not look at the stored status.
approveSubmission(s) ==
    /\ MayStart
    /\ submissions[s].status # "none"
    /\ Start([Idle EXCEPT !.op = "approve", !.pc = "status", !.sub = s,
                          !.snap = localSubmissions])
    /\ UNCHANGED <<aside, products, submissions, movements, now, localProducts,
                   localSubmissions>>

\* Any stock of the two products; the actions follow each other.
InitTwice ==
    /\ InitStore
    /\ \E n1 \in 0 .. MaxQty, n2 \in 0 .. MaxQty :
        products = [InitProducts EXCEPT !["p1"].stock = n1, !["p2"].stock = n2]
    /\ localProducts = products
    /\ schedule = "sequential"
    /\ NoRefetch
    /\ SignedIn

\* A submission is approved, and approved again.
NextTwice ==
    \/ \E s \in SubIds : approveSubmission(s)
    \/ \E k \in Invocations : approveStatus(k)
    \/ \E k \in Invocations, p \in ProductIds : approveRead(k, p)
    \/ \E k \in Invocations, p \in ProductIds : approveWrite(k, p)
    \/ \E k \in Invocations, p \in ProductIds : approveLog(k, p)
    \/ \E k \in Invocations : approveRollback(k)

SpecTwice == InitTwice /\ [][NextTwice]_vars

\* Any admin profile and any depot row; nobody is signed in.
InitAuth ==
    /\ InitStore
    /\ products = InitProducts
    /\ localProducts = InitProducts
    /\ schedule = "single"
    /\ NoRefetch
    /\ \E profile \in Profiles \cup {NoProfile} :
        users = [e \in Emails |-> IF e = AdminEmail THEN profile ELSE NoProfile]
    /\ \E row \in DepotRows \cup {NoDepot} : depots = [d \in DepotIds |-> row]
    /\ session = NoSession
    /\ auth = NoAuth

\* Sign-ins on either form, the profile look-ups of App, log-outs.
NextAuth ==
    \/ \E email \in Emails : signInAdminUser(email)
    \/ signInAdminProfile
    \/ signInAdminReactivate
    \/ \E email \in Emails : signInDepotUser(email)
    \/ signInDepotProfile
    \/ getUserProfile
    \/ getUserProfileRow
    \/ authSignOut
    \/ handleLogout

SpecAuth == InitAuth /\ [][NextAuth]_vars

\* Two submissions of depot A await review, both counting the first product,
\* whose stock is 0; the cached tables are the stored ones; the actions
\* overlap.
RaceProducts == [InitProducts EXCEPT !["p1"].stock = 0]

RaceSubmissions ==
    [s \in SubIds |->
        [status |-> "pending", depotName |-> "A",
         items |-> [p \in ProductIds |->
                       CASE p = "p1" /\ s = "s1" -> 2
                         [] p = "p1" /\ s = "s2" -> 1
                         [] OTHER -> 0]]]

InitRace ==
    /\ submissions = RaceSubmissions
    /\ movements = <<>>
    /\ now = 0
    /\ calls = [k \in Invocations |-> Idle]
    /\ localSubmissions = StatusesOf(RaceSubmissions)
    /\ chatMessages = 0
    /\ csvExports = 0
    /\ stagedItems = <<>>
    /\ localMovements = <<>>
    /\ products = RaceProducts
    /\ localProducts = RaceProducts
    /\ schedule = "overlapping"
    /\ NoRefetch
    /\ SignedIn

\* The mutations of the stock of one product that overlap: admin movements,
\* approvals and edits.
NextRace ==
    \/ \E n \in 1 .. MaxQty, m \in {"admin_entry", "admin_exit"} :
          adminCreateMovement("p1", n, m)
    \/ \E s \in SubIds : handleApprove(s)
    \/ \E n \in FormStocks : updateProduct("p1", n, localProducts["p1"].location)
    \/ \E k \in Invocations : adminWrite(k)
    \/ \E k \in Invocations : adminLog(k)
    \/ \E k \in Invocations : approveStatus(k)
    \/ \E k \in Invocations, p \in ProductIds : approveRead(k, p)
    \/ \E k \in Invocations, p \in ProductIds : approveWrite(k, p)
    \/ \E k \in Invocations, p \in ProductIds : approveLog(k, p)
    \/ \E k \in Invocations : approveRollback(k)
    \/ \E k \in Invocations : updateProductWrite(k)
    \/ \E k \in Invocations : updateProductLog(k)

SpecRace == InitRace /\ [][NextRace]_vars

\* Every change of a table has been notified: the notification of a change
\* is delivered before the store changes again.
Delivered == \A tbl \in Tables : seen[tbl] = StoreTable(tbl)

\* The admin reviews two pending submissions while the change notifications
\* re-fetch the cached tables.
NextFeed ==
    \/ \E tbl \in Tables : notify(tbl)
    \/ \E i \in DOMAIN refetches : refetchRead(i)
    \/ \E i \in DOMAIN refetches : refetchApply(i)
    \/ \E s \in SubIds : Delivered /\ handleReject(s)
    \/ \E s \in SubIds : Delivered /\ handleApprove(s)
    \/ \E k \in Invocations : Delivered /\ rejectStatus(k)
    \/ \E k \in Invocations : Delivered /\ approveStatus(k)
    \/ \E k \in Invocations, p \in ProductIds : Delivered /\ approveRead(k, p)
    \/ \E k \in Invocations, p \in ProductIds : Delivered /\ approveWrite(k, p)
    \/ \E k \in Invocations, p \in ProductIds : Delivered /\ approveLog(k, p)
    \/ \E k \in Invocations : Delivered /\ approveRollback(k)

SpecFeed == InitRace /\ [][NextFeed]_vars

\* ------------------------------------------------------------- properties
\* The ledger rows an invocation appended.
RowsOf(k) == {i \in DOMAIN movements : movements[i].call = k}

\* The ledger rows of a product.
RowsFor(p) == {i \in DOMAIN movements : movements[i].product_id = p}

\* Invocation k returns at this step.
Returns(k) == calls[k].pc # "done" /\ calls'[k].pc = "done"

\* The step is the invocation of a handler, which takes the place k.
Invoked(k, op) == calls[k].op = "idle" /\ calls'[k].op = op

\* C1: after each stock-changing operation every product's stored stock is
\* >= 0 (an operation whose result would be negative is rejected and leaves
\* the stock as it was).
StockNeverNegative ==
    \A p \in ProductIds : Live(products, p) => products[p].stock >= 0

\* C2: every row of the ledger, whichever operation appended it, satisfies
\* new_stock_level = old_stock_level + quantity_change.
LedgerArithmetic ==
    \A i \in DOMAIN movements :
        movements[i].new_stock_level =
            movements[i].old_stock_level + movements[i].quantity_change

\* An approval has appended the rows of its two items, one that raised a
\* stock and one that lowered a stock.
ApprovalRowsBothWays ==
    \E i, j \in DOMAIN movements :
        /\ movements[i].change_type = "submission"
        /\ movements[j].change_type = "submission"
        /\ movements[i].quantity_change > 0
        /\ movements[j].quantity_change < 0

\* C3: once a submission is approved or rejected no step changes its status
\* again, except the roll-back to pending sent by the approval whose item
\* batch failed.
StatusTerminal ==
    [][\A s \in SubIds :
          (/\ submissions[s].status \in {"approved", "rejected"}
           /\ submissions'[s].status # submissions[s].status)
          => /\ submissions[s].status = "approved"
             /\ submissions'[s].status = "pending"
             /\ \E k \in Invocations :
                   At(k, "approve", "rollback") /\ calls[k].sub = s]_vars

\* C4: when an approval returns without error, every item's product holds
\* the counted quantity and the approval has appended, for every item, one
\* row of type submission from the stock it read to the counted quantity.
ApprovalAppliesItems ==
    [][\A k \in Invocations :
          (calls[k].op = "approve" /\ Returns(k) /\ calls'[k].res = "ok")
          => \A p \in ItemsOf(calls[k].sub) :
                LET quantity == submissions[calls[k].sub].items[p]
                    rows == {i \in DOMAIN movements' :
                                /\ movements'[i].call = k
                                /\ movements'[i].product_id = p}
                IN /\ products'[p].stock = quantity
                   /\ Cardinality(rows) = 1
                   /\ \A i \in rows :
                         /\ movements'[i].change_type = "submission"
                         /\ movements'[i].new_stock_level = quantity
                         /\ movements'[i].quantity_change =
                               quantity - movements'[i].old_stock_level]_vars

\* C5: when an approval whose item batch failed returns, the submission is
\* pending again and the caller gets the one error of the batch.
FailedBatchReverted ==
    [][\A k \in Invocations :
          (At(k, "approve", "rollback") /\ Returns(k))
          => /\ calls'[k].res = "stockError"
             /\ submissions'[calls[k].sub].status = "pending"]_vars

\* C6: an approval whose status update failed returns that error at that
\* step, which changes no table, and nothing else happens: the submission
\* is pending, no item chain exists (no stock is read or written) and the
\* ledger has no row of the approval.
AbortOnStatusError ==
    /\ [](\A k \in Invocations :
            (calls[k].op = "approve" /\ calls[k].res = "statusError")
            => /\ calls[k].pc = "done"
               /\ calls[k].it = <<>>
               /\ submissions[calls[k].sub].status = "pending"
               /\ RowsOf(k) = {})
    /\ [][\A k \in Invocations :
            (calls[k].res # "statusError" /\ calls'[k].res = "statusError")
            => /\ At(k, "approve", "status")
               /\ UNCHANGED <<products, submissions, movements>>]_vars

\* An approval has returned the error of its status update.
StatusErrorReturned ==
    \E k \in Invocations :
        calls[k].op = "approve" /\ calls[k].res = "statusError"

\* C7: a consumption of q that is accepted finds q <= the stored stock and
\* lowers the stored stock by exactly q, and its ledger insert adds the row;
\* one that is not accepted changes neither the stock nor the ledger.
ConsumptionWithinStock ==
    [][\A k \in Invocations :
          /\ (Invoked(k, "consume") /\ calls'[k].pc = "log")
             => LET p == calls'[k].p
                    q == calls'[k].q
                IN /\ q <= products[p].stock
                   /\ products'[p].stock = products[p].stock - q
          /\ (Invoked(k, "consume") /\ calls'[k].pc = "done")
             => UNCHANGED <<products, movements>>
          /\ (At(k, "consume", "log") /\ Returns(k))
             => Len(movements') = Len(movements) + 1]_vars

\* C8: once the handlers have returned, a product created since the
\* initial state (by the form, the import or the bulk set) has exactly one
\* row in the ledger for each change of its stock: its creation.
EveryStockChangeLogged ==
    Quiet =>
        \A p \in ProductIds :
            (InitProducts[p].st = "none" /\ Live(products, p))
            => Cardinality(RowsFor(p)) = 1

BatchSharesRef ==
    /\ \A i, j \in DOMAIN movements :
          movements[i].call = movements[j].call
          => movements[i].transaction_ref = movements[j].transaction_ref
    /\ \A k \in Invocations :
          (calls[k].op \in {"approve", "bulk"} /\ calls[k].it # <<>>)
          => /\ calls[k].ref # NoRef
             /\ \A i \in RowsOf(k) : movements[i].transaction_ref = calls[k].ref

\* An approval has appended the rows of two items.
ApprovalBatchLogged ==
    \E i, j \in DOMAIN movements :
        /\ i # j
        /\ movements[i].call = movements[j].call
        /\ movements[i].change_type = "submission"
        /\ movements[i].product_id # movements[j].product_id

\* C11: the ledger is append-only: every step leaves the rows it held as they
\* were, in their places, and at most adds rows after them.
LedgerAppendOnly ==
    [][/\ Len(movements') >= Len(movements)
       /\ \A i \in DOMAIN movements : movements'[i] = movements[i]]_vars

\* The ledger holds two rows, appended one after the other.
LedgerGrewTwice == Len(movements) >= 2

\* C12: a rejection makes one write, the status of its submission set to
\* rejected (nothing when the store refuses it): the click and the answer
\* change no product and no ledger row, and no other submission.
RejectWritesStatusOnly ==
    [][\A k \in Invocations :
          /\ Invoked(k, "reject") => UNCHANGED <<products, submissions, movements>>
          /\ (At(k, "reject", "status") /\ Returns(k))
             => /\ UNCHANGED <<products, movements>>
                /\ submissions' =
                      IF calls'[k].res = "ok"
                      THEN [submissions EXCEPT ![calls[k].sub].status = "rejected"]
                      ELSE submissions]_vars

\* A rejection has been answered and its submission is rejected.
RejectionStored ==
    \E k \in Invocations :
        /\ calls[k].op = "reject" /\ calls[k].res = "ok"
        /\ submissions[calls[k].sub].status = "rejected"

\* C13: when a bulk set of depot D returns without error, every pair
\* (code, newStock) it was given has been applied: D holds a row of the code
\* with stock newStock (or no row of it, for a newStock of 0), and for a
\* pair that called for a write the bulk set has appended one row, of type
\* inventory_count from the stock found or of type initial from 0.
BulkSetApplied ==
    [][\A k \in Invocations :
          (calls[k].op = "bulk" /\ Returns(k) /\ calls'[k].res = "ok")
          => \A code \in Codes :
                LET item == calls[k].it[code]
                    held == InDepot(products', code, calls[k].depot)
                    rows == {i \in DOMAIN movements' :
                                /\ movements'[i].call = k
                                /\ movements'[i].product_id = item.p}
                IN item.st # "none"
                   => /\ IF held = {} THEN item.q = 0
                         ELSE \E p \in held : products'[p].stock = item.q
                      /\ item.kind # ""
                         => /\ Cardinality(rows) = 1
                            /\ \A i \in rows :
                                  /\ movements'[i].change_type = item.kind
                                  /\ movements'[i].old_stock_level = item.old
                                  /\ movements'[i].new_stock_level = item.q]_vars

\* C14: a submit whose insert is accepted creates exactly one submission,
\* pending, of the user's depot, with the staged items (one that is refused
\* creates none); neither the submit nor its chat notification, sent or
\* failed, changes a product, a ledger row or a submission.
SubmitCreatesPending ==
    [][\A k \in Invocations :
          /\ Invoked(k, "submit")
             => /\ UNCHANGED <<products, movements>>
                /\ IF calls'[k].res \in {"error", "refused"}
                   THEN submissions' = submissions
                   ELSE \E s \in SubIds :
                           /\ submissions[s].status = "none"
                           /\ calls'[k].sub = s
                           /\ stagedItems # <<>>
                           /\ submissions' = [submissions EXCEPT ![s] =
                                 [status |-> "pending", depotName |-> UserDepot,
                                  items |-> [p \in ProductIds |->
                                     IF \E i \in DOMAIN stagedItems :
                                           stagedItems[i].productId = p
                                     THEN LET i == CHOOSE i \in DOMAIN stagedItems :
                                                     stagedItems[i].productId = p
                                          IN stagedItems[i].quantity
                                     ELSE 0]]]
          /\ (At(k, "submit", "notify") /\ Returns(k))
             => /\ UNCHANGED <<products, movements, submissions>>
                /\ submissions[calls[k].sub].status = "pending"]_vars

\* A submit has ended whose notification failed: its submission is stored
\* and pending.
SubmittedWithoutNotice ==
    \E k \in Invocations :
        /\ calls[k].op = "submit" /\ calls[k].res = "ok"
        /\ chatMessages = 0
        /\ submissions[calls[k].sub].status = "pending"

\* Invocation k has been made and has not ended: it has not returned or
\* some promise of its batch has not settled.
InFlight(k) ==
    /\ calls[k].op # "idle"
    /\ ~(calls[k].pc = "done"
         /\ \A i \in DOMAIN calls[k].it : Settled(calls[k].it[i].st))

\* C15: an operation that names a missing product is rejected before any
\* write: an admin movement goes on to its write only for a stored product
\* and its select changes nothing, and while an approval with an item whose
\* product is not stored is in flight no submission, product or ledger row
\* changes.
MissingProductRejected ==
    [][\A k \in Invocations :
          /\ Invoked(k, "admin")
             => /\ UNCHANGED <<submissions, products, movements>>
                /\ calls'[k].pc = "write" => Live(products, calls'[k].p)
          /\ (/\ calls[k].op = "approve" /\ InFlight(k)
              /\ \E p \in ItemsOf(calls[k].sub) : ~Live(products, p))
             => UNCHANGED <<submissions, products, movements>>]_vars

\* C16: a ledger row is appended only after the write of its product has
\* succeeded: at the step that appends a row, the product is stored with the
\* stock the row gives as new_stock_level.
LedgerAfterWrite ==
    [][Len(movements') > Len(movements)
       => LET m == movements'[Len(movements')]
          IN /\ Live(products, m.product_id)
             /\ products[m.product_id].stock = m.new_stock_level]_vars

\* Invocation k takes its ledger step: the insert of a row by a handler, or
\* by an item of its batch.
LedgerStep(k) ==
    \/ calls[k].pc = "log" /\ calls'[k].pc # "log"
    \/ \E i \in DOMAIN calls[k].it :
          /\ calls[k].it[i].st = "log"
          /\ i \in DOMAIN calls'[k].it => calls'[k].it[i].st # "log"

\* C17: a failure of a store call is surfaced as an error: an operation whose
\* ledger insert fails, the row not being appended, does not return success
\* with that step.
StoreFailureSurfaced ==
    [][\A k \in Invocations :
          LedgerStep(k) /\ movements' = movements
          => ~(Returns(k) /\ calls'[k].res = "ok")]_vars

\* The stock values invocation k, an approval or an edit that returned
\* success, wrote to product p: the counted quantity of the submission, or
\* the new_stock_level of the row the edit logged.
Written(k, p) ==
    IF calls[k].op = "approve"
    THEN {submissions[calls[k].sub].items[p]}
    ELSE {movements[i].new_stock_level : i \in RowsOf(k) \cap RowsFor(p)}

\* Both invocations have ended with success and each is one of these
\* handlers.
BothDone(ops) ==
    /\ Quiet
    /\ \A k \in Invocations : calls[k].op \in ops /\ calls[k].res = "ok"

\* The two invocations have interleaved their read-compute-write sequences
\* on the first product: each has logged its row, and each had read the
\* initial stock, before the write of the other.
ReadsInterleaved ==
    /\ Len(movements) = 2
    /\ movements[1].call # movements[2].call
    /\ \A i \in 1 .. 2 :
          /\ movements[i].product_id = "p1"
          /\ movements[i].old_stock_level = RaceProducts["p1"].stock

\* C18: overlapping mutations of one product are unguarded read-compute-write
\* sequences.  Two admin movements that interleave them lose an update: the
\* stored stock is not the initial stock plus the two changes.  Two
\* approvals with a common product, or an approval and an edit, write values
\* fixed by their arguments, so that once both have succeeded the stored
\* stock is the value one of them wrote, as when they run one after the
\* other.
OverlapKeepsOneWrite ==
    /\ (BothDone({"admin"}) /\ ReadsInterleaved)
       => products["p1"].stock #
             RaceProducts["p1"].stock
             + movements[1].quantity_change + movements[2].quantity_change
    /\ (/\ BothDone({"approve", "update"})
        /\ \E k \in Invocations : calls[k].op = "approve"
        /\ \A k \in Invocations : Written(k, "p1") # {})
       => products["p1"].stock \in UNION {Written(k, "p1") : k \in Invocations}

\* Two admin entries of the first product have interleaved and both have
\* succeeded, and the stored stock is less than the initial stock plus the
\* two quantities: one entry is lost.
AdminEntryLost ==
    /\ BothDone({"admin"})
    /\ ReadsInterleaved
    /\ \A i \in 1 .. 2 : movements[i].change_type = "admin_entry"
    /\ products["p1"].stock <
          RaceProducts["p1"].stock
          + movements[1].quantity_change + movements[2].quantity_change

\* C18 as stated for approvals and edits: when two approvals with a common
\* product, or an approval and an edit, have interleaved their
\* read-compute-write sequences and both have succeeded, one update is lost:
\* the stored stock is the result of neither sequential order, which are the
\* two values written.
ApprovalsLoseUpdate ==
    (/\ BothDone({"approve", "update"})
     /\ \E k \in Invocations : calls[k].op = "approve"
     /\ ReadsInterleaved)
    => products["p1"].stock
          \notin UNION {Written(k, "p1") : k \in Invocations}

\* Item p of the approval k is still in the batch after the step.
Kept(k, p) == p \in DOMAIN calls'[k].it

\* C19: in an approval the failure of one item's step does not cancel the
\* others: the step at which an item fails, and the catch block's status
\* update, leave every other item where it was; and an item whose read
\* succeeded has its write and its ledger insert made as in a batch without
\* failure, also once the status is back to pending and the approval has
\* returned: the write sets the counted quantity and goes on to the insert,
\* whose row is appended with it when the store accepts them.
SiblingsNotCancelled ==
    [][\A k \in Invocations : \A p \in DOMAIN calls[k].it :
          calls[k].op = "approve" =>
          /\ (Kept(k, p) /\ calls[k].it[p].st # "failed"
                         /\ calls'[k].it[p].st = "failed")
             => \A r \in ProductIds \ {p} : calls'[k].it[r] = calls[k].it[r]
          /\ (calls[k].pc = "rollback" /\ calls'[k].pc = "done" /\ Kept(k, p))
             => calls'[k].it = calls[k].it
          /\ (calls[k].it[p].st = "write" /\ Kept(k, p)
                /\ calls'[k].it[p].st = "log")
             => products'[p].stock = submissions[calls[k].sub].items[p]
          /\ (calls[k].it[p].st = "log"
                /\ (Kept(k, p) => calls'[k].it[p].st # "log")
                /\ movements' # movements)
             => movements' = Append(movements, approveMovement(k, p))]_vars

\* The approval has failed on an item, has set the status back to pending
\* and has returned its error; the other item, whose read succeeded, has its
\* write outstanding.
WriteOutstandingAfterRevert ==
    \E k \in Invocations, p \in ProductIds :
        /\ calls[k].op = "approve" /\ calls[k].pc = "done"
        /\ calls[k].res = "stockError"
        /\ submissions[calls[k].sub].status = "pending"
        /\ ItemAt(k, p, "write")
        /\ \E r \in ProductIds \ {p} : ItemAt(k, r, "failed")

\* C20: an approval or a bulk set that has returned to its caller has no
\* per-item operation left unsettled, so that no write of the batch comes
\* after the return.
ReturnsAfterSettlement ==
    \A k \in Invocations :
        (calls[k].op \in {"approve", "bulk"} /\ calls[k].pc = "done")
        => \A i \in DOMAIN calls[k].it : Settled(calls[k].it[i].st)

\* The list without its line i.
WithoutLine(list, i) == SubSeq(list, 1, i - 1) \o SubSeq(list, i + 1, Len(list))

\* C21: the staged list holds at most one line per product and every staged
\* quantity is a positive integer; the list changes only by the append of a
\* line with a positive quantity for a product not staged yet (staging a
\* staged product, or a quantity of 0, changes nothing), by the removal of
\* exactly the line of the product unstaged, or by being emptied when a
\* submit succeeds.
StagedListWellFormed ==
    /\ [](\A i \in DOMAIN stagedItems :
             /\ stagedItems[i].quantity \in Nat \ {0}
             /\ \A j \in DOMAIN stagedItems :
                   stagedItems[i].productId = stagedItems[j].productId => i = j)
    /\ [][stagedItems' # stagedItems
          => \/ \E p \in ProductIds, n \in 1 .. MaxQty :
                   /\ \A i \in DOMAIN stagedItems : stagedItems[i].productId # p
                   /\ stagedItems' =
                         Append(stagedItems, [productId |-> p, quantity |-> n])
             \/ \E i \in DOMAIN stagedItems :
                   stagedItems' = WithoutLine(stagedItems, i)
             \/ /\ stagedItems' = <<>>
                /\ \E k \in Invocations :
                      Returns(k) /\ calls'[k].res = "ok"]_vars

\* Two products are staged, the second line after the first.
TwoLinesStaged ==
    /\ Len(stagedItems) = 2
    /\ stagedItems[1].productId = "p2"
    /\ stagedItems[2].productId = "p1"

\* C22: on a submit of a staged list the CSV file is exported whether or not
\* the submission is then persisted, and the chat notification is sent
\* exactly when it was: the handler goes on to sendMessage when the insert
\* was accepted and ends without it when the insert failed, and the chat
\* table changes at no other step than that sendMessage.
ExportAlwaysNoticeOnSuccess ==
    [][\A k \in Invocations :
          /\ Invoked(k, "submit")
             => /\ chatMessages' = chatMessages
                /\ IF stagedItems = <<>>
                   THEN csvExports' = csvExports /\ calls'[k].res = "refused"
                   ELSE /\ csvExports' = csvExports + 1
                        /\ calls'[k].pc = "notify" <=> submissions' # submissions
                        /\ calls'[k].pc # "notify" => calls'[k].res = "error"
          /\ chatMessages' # chatMessages
             => \E j \in Invocations : At(j, "submit", "notify") /\ Returns(j)]_vars

\* A submit has ended with the error of its insert: the file was exported,
\* no submission is stored and no notification was sent.
ExportedNotNotified ==
    \E k \in Invocations :
        /\ calls[k].op = "submit" /\ calls[k].res = "error"
        /\ csvExports = 1
        /\ chatMessages = 0
        /\ \A s \in SubIds : submissions[s].status = "none"

\* C22 as stated: every submit of a staged list exports the file and goes on
\* to send the chat notification, whether or not the insert was accepted.
ExportAndNoticeAlways ==
    [][\A k \in Invocations :
          (Invoked(k, "submit") /\ stagedItems # <<>>)
          => csvExports' = csvExports + 1 /\ calls'[k].pc = "notify"]_vars

\* Invocation k takes a step.
Steps(k) == calls'[k] # calls[k]

\* C23: a handler whose store operation fails leaves the local state of the
\* UI as it was: an approval or a rejection changes the cached statuses only
\* with the step at which it returns success, marking its submission
\* approved or rejected, and a submit changes the staged list only with the
\* step at which it returns success, emptying it; a step that returns an
\* error changes neither.
FailureKeepsLocalState ==
    [][\A k \in Invocations :
          /\ (Steps(k) /\ calls'[k].op \in {"approve", "reject"}
                /\ localSubmissions' # localSubmissions)
             => /\ Returns(k) /\ calls'[k].res = "ok"
                /\ localSubmissions'[calls'[k].sub] =
                      (IF calls'[k].op = "approve" THEN "approved" ELSE "rejected")
          /\ (Steps(k) /\ calls'[k].op = "submit"
                /\ stagedItems' # stagedItems)
             => Returns(k) /\ calls'[k].res = "ok" /\ stagedItems' = <<>>
          /\ (Steps(k) /\ calls'[k].res \notin {"none", "ok"})
             => UNCHANGED <<localSubmissions, localProducts, stagedItems>>]_vars

\* A submit has failed with lines staged, which are still staged.
FailedSubmitKeepsLines ==
    \E k \in Invocations :
        /\ calls[k].op = "submit" /\ calls[k].res = "error"
        /\ stagedItems # <<>>

\* C24: each call site writes its own ledger convention.  The row a handler
\* appends is: for a product create, initial with old_stock_level 0 and a CRE
\* reference; for an edit, update with a MAJ reference; for a consumption of
\* q > 0, consumption with quantity_change -q and a CON reference; for an
\* admin entry of q > 0, admin_entry with quantity_change +q and an ENT
\* reference; for an admin exit, admin_exit with quantity_change -q and a
\* SOR reference.
LedgerConventions ==
    [][Len(movements') > Len(movements)
       => LET m == movements'[Len(movements')]
              c == calls[m.call]
              prefix == m.transaction_ref[1]
          IN /\ c.op = "add"
                => /\ m.change_type = "initial" /\ prefix = "CRE"
                   /\ m.old_stock_level = 0
             /\ c.op = "update"
                => m.change_type = "update" /\ prefix = "MAJ"
             /\ c.op = "consume"
                => /\ m.change_type = "consumption" /\ prefix = "CON"
                   /\ c.q > 0 /\ m.quantity_change = -c.q
             /\ (c.op = "admin" /\ c.type = "admin_entry")
                => /\ m.change_type = "admin_entry" /\ prefix = "ENT"
                   /\ m.quantity_change > 0
                   /\ m.quantity_change = m.new_stock_level - m.old_stock_level
             /\ (c.op = "admin" /\ c.type = "admin_exit")
                => /\ m.change_type = "admin_exit" /\ prefix = "SOR"
                   /\ m.quantity_change < 0
                   /\ m.quantity_change = m.new_stock_level - m.old_stock_level]_vars

\* An admin exit has been logged.
AdminExitLogged ==
    \E i \in DOMAIN movements :
        /\ movements[i].change_type = "admin_exit"
        /\ movements[i].transaction_ref[1] = "SOR"
        /\ movements[i].quantity_change = -1

\* The cached tables the views read are those of the store.
CachesFresh ==
    /\ localProducts = products
    /\ localMovements = getStockMovements

\* The rows of the ledger whose product is stored in depot d, the latest
\* first.
LedgerOf(d) ==
    LET located(m) == /\ Live(products, m.product_id)
                      /\ products[m.product_id].location = d
    IN Reverse(SelectSeq(movements, located))

\* The rows fetched (the latest FetchLimit rows of the ledger) whose product
\* is stored in depot d, the latest first.
FetchedOf(d) ==
    LET located(m) == /\ Live(products, m.product_id)
                      /\ products[m.product_id].location = d
    IN SelectSeq(getStockMovements, located)

\* C25: the depot of a movement is derived when it is read, from the current
\* location of its product.  With the cached tables up to date, the history
\* filtered by a depot holds exactly the fetched rows whose product is now
\* located there, and the movement manager lists the latest RecentShown of
\* them: the rows of a product moved from A to B are under B and none is
\* under A; and the edit that moves a product changes no ledger row.
DepotDerivedAtRead ==
    /\ [](CachesFresh
          => \A d \in Depots :
                /\ filteredMovements(d) = FetchedOf(d)
                /\ depotMovements(d) = Take(FetchedOf(d), RecentShown))
    /\ [][\A p \in ProductIds :
             products'[p].location # products[p].location
             => \A i \in DOMAIN movements :
                   i \in DOMAIN movements' /\ movements'[i] = movements[i]]_vars

\* The first product, moved from depot A to depot B, has more rows than the
\* manager lists: the history shows them all under B and none under A, the
\* manager the latest RecentShown of them.
MovedRowsFollow ==
    /\ CachesFresh
    /\ products["p1"].location = "B"
    /\ Len(movements) = RecentShown + 1
    /\ Len(filteredMovements("B")) = RecentShown + 1
    /\ Len(depotMovements("B")) = RecentShown
    /\ filteredMovements("A") = <<>>
    /\ depotMovements("A") = <<>>

\* C25 as stated: once a product has been moved to another depot, the
\* movements shown for a depot, in the manager and in the history, are
\* exactly the ledger rows whose product is located there.
DepotShowsAllRows ==
    (/\ CachesFresh
     /\ \E p \in ProductIds :
           Live(products, p) /\ products[p].location # InitProducts[p].location)
    => \A d \in Depots :
          /\ filteredMovements(d) = LedgerOf(d)
          /\ depotMovements(d) = LedgerOf(d)

\* C26: there is at most one product row for each pair of a code and a depot
\* location.
OneRowPerCodeAndDepot ==
    \A p, r \in ProductIds :
        (/\ Live(products, p) /\ Live(products, r)
         /\ products[p].code = products[r].code
         /\ products[p].location = products[r].location)
        => p = r

\* C27: when no other mutation overlaps, the old_stock_level of the row an
\* operation appends is the stock stored immediately before its write: at
\* the step that writes the stock of a consumption, an admin movement or an
\* edit, the old stock the invocation holds for its row (`old`) is the stock
\* the store holds before the step.
OldLevelIsStoredStock ==
    [][\A k \in Invocations :
          /\ (Invoked(k, "consume") /\ calls'[k].pc = "log")
             => calls'[k].old = products[calls'[k].p].stock
          /\ (calls[k].op \in {"admin", "update"} /\ calls[k].pc = "write"
                /\ calls'[k].pc = "log")
             => calls[k].old = products[calls[k].p].stock]_vars

\* The cached table of the App state.
LocalTable(tbl) ==
    CASE tbl = "products" -> localProducts
      [] tbl = "inventory_submissions" -> localSubmissions
      [] OTHER -> localMovements

\* The store has stopped changing, every change was notified and every
\* re-fetch has completed with the answer of the store.
FeedsSettled ==
    /\ Quiet
    /\ Delivered
    /\ \A i \in DOMAIN refetches : refetches[i].st = "free"

\* C28: once the store has stopped changing and every re-fetch started by
\* a change notification has completed, each cached table (products,
\* submissions, stock movements) equals the stored table.
CachesConverge ==
    FeedsSettled => \A tbl \in Tables : LocalTable(tbl) = StoreTable(tbl)

\* Invocation k is an approval that returns no error at this step, of the
\* submission the invocation before it approved without error.
SecondApprovalReturns(k) ==
    /\ k - 1 \in Invocations
    /\ calls[k].op = "approve" /\ Returns(k) /\ calls'[k].res = "ok"
    /\ calls[k - 1].op = "approve" /\ calls[k - 1].res = "ok"
    /\ calls[k - 1].sub = calls[k].sub

\* C29: a submission approved twice in sequence, with no other mutation in
\* between: the second approval leaves the stock of every item's product as
\* the first left it, the counted quantity, and all its ledger rows have
\* quantity_change 0.
SecondApprovalChangesNothing ==
    [][\A k \in Invocations :
          SecondApprovalReturns(k) =>
              /\ \A p \in ItemsOf(calls[k].sub) :
                    /\ products'[p].stock = submissions[calls[k].sub].items[p]
                    /\ calls[k].it[p].old = products'[p].stock
              /\ \A i \in DOMAIN movements' :
                    movements'[i].call = k => movements'[i].quantity_change = 0]_vars

\* Both approvals have returned no error; the first moved a stock and the
\* second appended its rows.
ApprovedTwice ==
    /\ \A k \in Invocations : calls[k].op = "approve" /\ calls[k].res = "ok"
    /\ calls[1].sub = calls[2].sub
    /\ \E i \in RowsOf(1) : movements[i].quantity_change # 0
    /\ RowsOf(2) # {}

\* The authService call under way returns at this step.
AuthReturns == auth.pc # "done" /\ auth'.pc = "done"

====
